---- MODULE Spec2Model ----
(***************************************************************************)
(* Model of the snapshot construction and diff engine of dirdiffpy         *)
(* (src/Snapshot.py): the Dir handle with its cached traversal, the        *)
(* per-entry indexing, snapshot_dir, compare_entry and                     *)
(* compare_dir_snapshot.                                                   *)
(*                                                                         *)
(* The specifications share the variables:                                 *)
(*   SpecEntry   compare_entry applied to bounded pairs of entry records   *)
(*   SpecDiff    compare_dir_snapshot applied to bounded pairs of snapshots*)
(*   SpecShape   compare_dir_snapshot on snapshots lacking top-level keys  *)
(*   Spec        a directory tree, one Dir handle on it, the indexing      *)
(*               functions and snapshot_dir                                *)
(*   SpecUpdate  indexes built and then updated by the update functions    *)
(*   SpecPaths   iterfiles and itersubdirs with relative/absolute paths    *)
(*   SpecSnap    snapshot_dir followed by compare_dir_snapshot             *)
(*   SpecSteps   snapshot_dir run line by line                             *)
(*   SpecIter    a generator of iterfiles / itersubdirs consumed stepwise  *)
(*   SpecDirs    Dir objects constructed one after the other               *)
(***************************************************************************)
EXTENDS Integers, Sequences, FiniteSets, TLC

VARIABLES
    new_data,           \* compare_entry: argument new_data
    old_data,           \* compare_entry: argument old_data
    cmp_key,            \* cmp_key argument of compare_entry / compare_dir_snapshot
    cmp_res,            \* compare_entry: returned value, NoCall before the call
    dir_snapshot_new,   \* compare_dir_snapshot: argument dir_snapshot_new
    dir_snapshot_old,   \* compare_dir_snapshot: argument dir_snapshot_old
    data,               \* compare_dir_snapshot: returned dict, EmptyDict before the call
    pc,                 \* "call" before the function under study ran, "return" after
    fs,                 \* the directory tree under the root: path -> node
    changes,            \* number of changes made to the tree so far
    patterns,           \* Dir.patterns
    files_cache,        \* Dir._files_cache
    sub_dirs_cache,     \* Dir._sub_dirs_cache
    is_populated,       \* Dir._is_populated
    op,                 \* the last call made and its arguments
    exc,                \* the exception that left the last call, or None
    walked,             \* the directories the last call's walk listed
    listing,            \* the list returned by the last call (files / subdirs)
    index,              \* the dict returned by the last call (index_files / index_subdirs)
    state,              \* the snapshot returned by the last call (snapshot_dir)
    snapshot_trees,     \* the trees dir_snapshot_new and dir_snapshot_old were built from,
                        \* and how many of the two snapshot_dir built (0, 1, 2)
    line,               \* snapshot_dir: the line the running call is to execute, 0 if none
    gen,                \* the generator object an iterfiles / itersubdirs call returned
    lists,              \* the list objects pattern lists are: object -> its elements
    handles             \* the Dir objects constructed so far, in order

diffvars == <<new_data, old_data, cmp_key, cmp_res,
              dir_snapshot_new, dir_snapshot_old, data, pc>>

dirvars == <<patterns, files_cache, sub_dirs_cache, is_populated>>

callvars == <<op, exc, walked, listing, index, state>>

runvars == <<line, gen, lists, handles>>

vars == <<diffvars, fs, changes, dirvars, callvars, snapshot_trees, runvars>>

(***************************************************************************)
(* Values                                                                  *)
(***************************************************************************)
\* Python's None
None == "None"
\* exceptions that leave a function
KeyError == "KeyError"
AttributeError == "AttributeError"
OSError == "OSError"

\* largest value an indexer produces (digests and timestamps are opaque
\* values compared with ==, so small integers stand for them)
MaxVal == 2
Values == 1..MaxVal

\* names of indexing methods (FileIndexers.XXHASH64 / GETMTIME / SHA256)
XXHASH == "xxhash"
GETMTIME == "getmtime"
SHA256 == "sha256"
\* keys that occur in the records of the bounded inputs
Keys == {XXHASH, GETMTIME}
\* cmp_key arguments: None or the name of an indexing method
CmpKeys == {None} \cup Keys

\* the empty dict
EmptyDict == << >>

\* all dicts with keys among K and values among V
Dicts(K, V) == UNION {[D -> V] : D \in SUBSET K}

\* entry records (IndexedDataType)
Records == Dicts(Keys, Values)

\* all orders in which the elements of a set can be listed
Perms(S) ==
    {s \in [1..Cardinality(S) -> S] : \A i, j \in DOMAIN s : s[i] = s[j] => i = j}

\* the set of elements of a list
Range(s) == {s[i] : i \in DOMAIN s}

\* a list holds no element twice
NoDup(s) == \A i, j \in DOMAIN s : s[i] = s[j] => i = j

(***************************************************************************)
(* compare_entry (Snapshot.py 522-561)                                     *)
(***************************************************************************)
\* Python truth value of the cmp_key argument (only None and non-empty key
\* names are passed)
Truthy(k) == k # None

\* variant: records without a shared key compare as not modified
compare_entry_no_basis_unchanged(new, old, key) ==
    IF Truthy(key)
    THEN IF key \in DOMAIN new /\ key \in DOMAIN old
         THEN IF new[key] # old[key] THEN 1 ELSE -1
         ELSE 0
    ELSE IF \E k \in DOMAIN old \cap DOMAIN new : new[k] # old[k] THEN 1 ELSE 0

\* variant: equal values under cmp_key compare as not modified
compare_entry_equal_unchanged(new, old, key) ==
    IF Truthy(key)
    THEN IF key \in DOMAIN new /\ key \in DOMAIN old /\ new[key] # old[key]
         THEN 1
         ELSE 0
    ELSE LET methods == DOMAIN old \cap DOMAIN new IN
         IF Cardinality(methods) = 0
         THEN -1
         ELSE IF \E k \in methods : new[k] # old[k] THEN 1 ELSE 0

\* variant: records without a common key count as modified
compare_entry_no_basis_modified(new, old, key) ==
    IF Truthy(key)
    THEN IF key \in DOMAIN new /\ key \in DOMAIN old
         THEN IF new[key] # old[key] THEN 1 ELSE -1
         ELSE 0
    ELSE LET methods == DOMAIN old \cap DOMAIN new IN
         IF Cardinality(methods) = 0 THEN 1
         ELSE IF \E k \in methods : new[k] # old[k] THEN 1 ELSE 0

\* variant: unknown is reported as not modified
compare_entry_never_unknown(new, old, key) ==
    IF Truthy(key)
    THEN IF key \in DOMAIN new /\ key \in DOMAIN old /\ new[key] # old[key]
         THEN 1 ELSE 0
    ELSE IF \E k \in DOMAIN old \cap DOMAIN new : new[k] # old[k] THEN 1 ELSE 0

compare_entry(new, old, key) ==
    IF Truthy(key)
    THEN IF key \in DOMAIN new /\ key \in DOMAIN old
         THEN IF new[key] # old[key] THEN 1 ELSE -1
         ELSE 0
    ELSE LET methods == DOMAIN old \cap DOMAIN new IN
         IF Cardinality(methods) = 0
         THEN -1
         ELSE IF \E k \in methods : new[k] # old[k] THEN 1 ELSE 0

(***************************************************************************)
(* compare_dir_snapshot (Snapshot.py 564-610)                              *)
(***************************************************************************)
\* variant: the root key is subscripted as well
HasMapsAndRoot(snapshot) == {"files", "subdirs", "root"} \subseteq DOMAIN snapshot

\* the top-level keys the function subscripts
HasMaps(snapshot) == {"files", "subdirs"} \subseteq DOMAIN snapshot

\* variant: the whole first key set, no difference taken
ListOfFirst(a, b) == Perms(a)

\* variant: the difference taken the other way round
ListOfReverseDifference(a, b) == Perms(b \ a)

\* list(set difference): the elements of a \ b in some order
ListOfDifference(a, b) == Perms(a \ b)

\* variant: the two result lists exchanged
AppendWhereExchanged(new, old, key, ord, res) ==
    LET Test(f) == compare_entry(new["files"][f], old["files"][f], key) = -res
    IN  SelectSeq(ord, Test)

\* the loop over old_files & new_files, visiting the common paths in the
\* order `ord' and appending to the list selected by `res'
AppendWhere(new, old, key, ord, res) ==
    LET Test(f) == compare_entry(new["files"][f], old["files"][f], key) = res
    IN  SelectSeq(ord, Test)

\* the empty diff
EmptyDiff ==
    [deleted |-> << >>, created |-> << >>, modified |-> << >>,
     modified_unknown |-> << >>, deleted_dirs |-> << >>]

\* the outcomes the call can have (list(set) and set iteration have no fixed
\* order): exc is None and value the returned dict, or exc is the exception
compare_dir_snapshot(new, old, key) ==
    IF ~(HasMaps(new) /\ HasMaps(old))
    THEN {[exc |-> KeyError, value |-> EmptyDiff]}
    ELSE LET old_files == DOMAIN old["files"]
             new_files == DOMAIN new["files"]
             old_dirs  == DOMAIN old["subdirs"]
             new_dirs  == DOMAIN new["subdirs"]
         IN  {[exc   |-> None,
               value |-> [deleted          |-> dl,
                          created          |-> cr,
                          modified         |-> AppendWhere(new, old, key, ord, 1),
                          modified_unknown |-> AppendWhere(new, old, key, ord, -1),
                          deleted_dirs     |-> dd]] :
                  dl \in ListOfDifference(old_files, new_files),
                  cr \in ListOfDifference(new_files, old_files),
                  dd \in ListOfDifference(old_dirs, new_dirs),
                  ord \in Perms(old_files \cap new_files)}

(***************************************************************************)
(* Bounded inputs of the diff functions                                    *)
(***************************************************************************)
\* the new snapshot ranges over three file names, the old one over two of
\* them, so that files are created, deleted and common, up to two at a time
NewFileNames == {"a.txt", "b.txt", "c.txt"}
OldFileNames == {"a.txt", "b.txt"}
DirNames == {"sub"}
RootPath == "/root"

\* records of a snapshot's entries: made by one indexing method, which may
\* have failed for the entry
SnapRecords == UNION {Dicts({k}, Values) : k \in Keys}

\* records of directories in the inputs
DirRecords == Dicts({GETMTIME}, {1})

RootIndex(record) == [p \in {RootPath} |-> record]

Snapshots(names) ==
    {[root |-> RootIndex(EmptyDict), subdirs |-> s, files |-> f] :
        s \in Dicts(DirNames, DirRecords), f \in Dicts(names, SnapRecords)}

EmptySnapshot ==
    [root |-> RootIndex(EmptyDict), subdirs |-> EmptyDict, files |-> EmptyDict]

(***************************************************************************)
(* The directory tree                                                      *)
(***************************************************************************)
\* the paths that can exist under the root, relative to it
Paths == {"z.txt", "sub", "sub/b.txt", "sub/.git"}
\* the relative path of the root itself
Dot == "."

\* os.path.dirname / os.path.basename of a relative path
Parent ==
    [p \in Paths |-> IF p \in {"sub/b.txt", "sub/.git"} THEN "sub" ELSE Dot]
Basename ==
    [p \in Paths |->
        CASE p = "sub/b.txt" -> "b.txt"
          [] p = "sub/.git"  -> ".git"
          [] OTHER           -> p]

\* os.path.join(root, name) as a path relative to the handle's root
Join(root, name) == CHOOSE p \in Paths : Parent[p] = root /\ Basename[p] = name

\* the order in which the operating system lists directory entries
ListingOrder == <<"z.txt", "sub", "sub/b.txt", "sub/.git">>
\* the order of Python's string comparison
SortedPaths == <<"sub", "sub/.git", "sub/b.txt", "z.txt">>
Rank(p) == CHOOSE i \in DOMAIN SortedPaths : SortedPaths[i] = p

\* a node of the tree: nothing, a regular file holding val, a file that
\* cannot be opened, a directory, or a symbolic link (to a file where the
\* name is a file's, to a directory where it is a directory's)
Node(kind, val) == [kind |-> kind, val |-> val]
Absent == Node("none", 0)
NodesOf(p) ==
    CASE p = "z.txt"     -> {Absent, Node("link", 1), Node("locked", 1)}
                               \cup {Node("file", v) : v \in Values}
      [] p = "sub"       -> {Absent, Node("dir", 1), Node("link", 1)}
      [] p = "sub/b.txt" -> {Absent, Node("file", 1)}
      [] p = "sub/.git"  -> {Absent, Node("dir", 1)}

DirNamed == {"sub", "sub/.git"}

\* a path exists only inside an existing directory (or behind a link to one)
Consistent(tree) ==
    \A p \in Paths :
        (tree[p] # Absent /\ Parent[p] # Dot) => tree[Parent[p]] # Absent

Trees == {t \in [Paths -> UNION {NodesOf(p) : p \in Paths}] :
             /\ \A p \in Paths : t[p] \in NodesOf(p)
             /\ Consistent(t)}

NodeAt(tree, p) == IF p = Dot THEN Node("dir", 1) ELSE tree[p]

\* variant: no path is taken for a symbolic link
IsLinkNever(tree, p) == FALSE

\* os.path.islink
IsLink(tree, p) == NodeAt(tree, p).kind = "link"
\* DirEntry.is_dir(), which follows symbolic links
IsDirEntry(tree, p) ==
    \/ NodeAt(tree, p).kind = "dir"
    \/ NodeAt(tree, p).kind = "link" /\ p \in DirNamed

\* the path and the directories above it, up to the root
RECURSIVE SelfAndAncestors(_)
SelfAndAncestors(p) == IF p = Dot THEN {} ELSE {p} \cup SelfAndAncestors(Parent[p])

Ancestors(p) == SelfAndAncestors(p) \ {p}

(***************************************************************************)
(* Exclusion patterns (Dir.__init__, Dir.is_excluded)                      *)
(***************************************************************************)
DefaultExcludes == <<".git/", ".hg/", ".svn/">>
\* the excludes lists handles are built with
ExcludeLists == {DefaultExcludes, << >>, <<"sub/">>}

\* Globster.match for a pattern that is a name with a trailing slash: the
\* pattern matches every path with that base name
PatternName(pat) ==
    CASE pat = ".git/" -> ".git"
      [] pat = ".hg/"  -> ".hg"
      [] pat = ".svn/" -> ".svn"
      [] pat = "sub/"  -> "sub"
      [] OTHER         -> pat

Matches(pats, p) ==
    p # Dot /\ \E i \in DOMAIN pats : PatternName(pats[i]) = Basename[p]

\* is_excluded: "False" without a match.  With a match the function calls
\* log.debug, and log is the function logging.log (line 26), which has no
\* attribute debug: AttributeError leaves is_excluded before `return True'.
is_excluded(pats, p) ==
    IF Matches(pats, p) THEN AttributeError ELSE "False"

(***************************************************************************)
(* Dir.walk (Snapshot.py 130-152) over os.walk                             *)
(***************************************************************************)
\* the entries os.walk lists in the directory top
Entries(tree, top) ==
    LET In(p) == Parent[p] = top /\ tree[p] # Absent
    IN  SelectSeq(ListingOrder, In)

\* the base names of a list of paths
RECURSIVE Names(_)
Names(ps) == IF ps = << >> THEN << >> ELSE <<Basename[Head(ps)]>> \o Names(Tail(ps))

\* the walk of the directory top and of what lies below it: the triples
\* yielded before the walk ended, the exception that ended it (or None), and
\* the directories listed
RECURSIVE walk_from(_, _, _)
RECURSIVE walk_each(_, _, _)
walk_from(tree, pats, top) ==
    LET ents       == Entries(tree, top)
        IsD(p)     == IsDirEntry(tree, p)
        NotD(p)    == ~IsDirEntry(tree, p)
        dirs       == SelectSeq(ents, IsD)
        files      == SelectSeq(ents, NotD)
        Raises(p)  == is_excluded(pats, p) = AttributeError
        Kept(p)    == is_excluded(pats, p) = "False"
        NoLink(p)  == ~IsLink(tree, p)
        KeptFile(p) == is_excluded(pats, p) = "False" /\ ~IsLink(tree, p)
        \* dirs after dirs.remove(d) of the excluded ones
        left       == SelectSeq(dirs, Kept)
        ndirs      == SelectSeq(left, NoLink)
        nfiles     == SelectSeq(files, KeptFile)
        \* the triple of top, followed by the walk below it
        Yield(below) ==
            [triples |-> <<[root |-> top, dirs |-> Names(ndirs), files |-> Names(nfiles)]>>
                            \o below.triples,
             exc     |-> below.exc,
             listed  |-> {top} \cup below.listed]
    IN  IF \E i \in DOMAIN dirs : Raises(dirs[i])
        THEN [triples |-> << >>, exc |-> AttributeError, listed |-> {top}]
        ELSE IF \E i \in DOMAIN files : Raises(files[i])
        THEN [triples |-> << >>, exc |-> AttributeError, listed |-> {top}]
        \* os.walk descends into what is left in dirs, links excepted
        ELSE Yield(walk_each(tree, pats, SelectSeq(left, NoLink)))

walk_each(tree, pats, tops) ==
    IF tops = << >>
    THEN [triples |-> << >>, exc |-> None, listed |-> {}]
    ELSE LET Both(first, rest) ==
                 [triples |-> first.triples \o rest.triples,
                  exc     |-> rest.exc,
                  listed  |-> first.listed \cup rest.listed]
             Then(first) ==
                 IF first.exc # None
                 THEN first
                 ELSE Both(first, walk_each(tree, pats, Tail(tops)))
         IN  Then(walk_from(tree, pats, Head(tops)))

walk(tree, pats) == walk_from(tree, pats, Dot)

(***************************************************************************)
(* Dir.populate, depopulate, iterfiles, itersubdirs, files, subdirs        *)
(***************************************************************************)
\* a handle: the fields of Dir the operations read and write
NewDir(excludes) ==
    [patterns |-> excludes, files_cache |-> << >>, sub_dirs_cache |-> << >>,
     is_populated |-> FALSE]

\* self.relpath(os.path.join(root, name)) for every name of a list
RECURSIVE Joined(_, _)
Joined(root, names) ==
    IF names = << >> THEN << >>
    ELSE <<Join(root, Head(names))>> \o Joined(root, Tail(names))

\* what the loop of populate appends to the two caches
RECURSIVE CachedFiles(_)
CachedFiles(triples) ==
    IF triples = << >> THEN << >>
    ELSE Joined(Head(triples).root, Head(triples).files) \o CachedFiles(Tail(triples))

RECURSIVE CachedDirs(_)
CachedDirs(triples) ==
    IF triples = << >> THEN << >>
    ELSE Joined(Head(triples).root, Head(triples).dirs) \o CachedDirs(Tail(triples))

\* variant: populate walks whether or not the handle is populated
populate_always(dir, tree, force_refresh) ==
    LET Filled(w) ==
            [dir    |-> [dir EXCEPT !.files_cache = CachedFiles(w.triples),
                                    !.sub_dirs_cache = CachedDirs(w.triples),
                                    !.is_populated = IF w.exc = None THEN TRUE ELSE @],
             exc    |-> w.exc,
             listed |-> w.listed]
    IN  Filled(walk(tree, dir.patterns))

\* variant: populate fills the caches and leaves the flag as it is
populate_never_flagged(dir, tree, force_refresh) ==
    IF ~force_refresh /\ dir.is_populated
    THEN [dir |-> dir, exc |-> None, listed |-> {}]
    ELSE LET Filled(w) ==
                 [dir    |-> [dir EXCEPT !.files_cache = CachedFiles(w.triples),
                                         !.sub_dirs_cache = CachedDirs(w.triples)],
                  exc    |-> w.exc,
                  listed |-> w.listed]
         IN  Filled(walk(tree, dir.patterns))

\* populate: the handle afterwards, the exception, the directories listed
populate(dir, tree, force_refresh) ==
    IF ~force_refresh /\ dir.is_populated
    THEN [dir |-> dir, exc |-> None, listed |-> {}]
    ELSE LET Filled(w) ==
                 [dir    |-> [dir EXCEPT !.files_cache = CachedFiles(w.triples),
                                         !.sub_dirs_cache = CachedDirs(w.triples),
                                         !.is_populated = IF w.exc = None THEN TRUE ELSE @],
                  exc    |-> w.exc,
                  listed |-> w.listed]
         IN  Filled(walk(tree, dir.patterns))

\* variant: depopulate clears the files cache only
depopulate_files_only(dir) ==
    [dir EXCEPT !.files_cache = << >>, !.is_populated = FALSE]

depopulate(dir) ==
    [dir EXCEPT !.files_cache = << >>, !.sub_dirs_cache = << >>, !.is_populated = FALSE]

\* iterfiles / itersubdirs with the default pattern and relative paths, run
\* to its end: value is the list of paths yielded
iterfiles(dir, tree, force_refresh) ==
    LET Yield(p) ==
            [dir |-> p.dir, exc |-> p.exc, listed |-> p.listed,
             value |-> IF p.exc = None THEN p.dir.files_cache ELSE << >>]
    IN  Yield(populate(dir, tree, force_refresh))

itersubdirs(dir, tree, force_refresh) ==
    LET Yield(p) ==
            [dir |-> p.dir, exc |-> p.exc, listed |-> p.listed,
             value |-> IF p.exc = None THEN p.dir.sub_dirs_cache ELSE << >>]
    IN  Yield(populate(dir, tree, force_refresh))

\* Dir.path is the absolute path of the root, Dir.directory its base name
\* (Snapshot.py 102-103)
DirPath == RootPath
Directory == "root"

\* os.path.join(base, p) for a relative path p, kept as its two parts
AbsJoin(base, p) == <<base, p>>

\* the paths of a list, each joined to base
RECURSIVE JoinedTo(_, _)
JoinedTo(base, paths) ==
    IF paths = << >> THEN << >>
    ELSE <<AbsJoin(base, Head(paths))>> \o JoinedTo(base, Tail(paths))

\* iterfiles / itersubdirs with the default pattern and the abspath
\* argument, run to its end
iterfiles_abspath(dir, tree, abspath, force_refresh) ==
    LET Yield(it) ==
            [it EXCEPT !.value = IF abspath THEN JoinedTo(DirPath, @) ELSE @]
    IN  Yield(iterfiles(dir, tree, force_refresh))

itersubdirs_abspath(dir, tree, abspath, force_refresh) ==
    LET Yield(it) ==
            [it EXCEPT !.value = IF abspath THEN JoinedTo(Directory, @) ELSE @]
    IN  Yield(itersubdirs(dir, tree, force_refresh))

\* sorted() with the default key: insertion of each element after the
\* elements not greater than it
RECURSIVE Insert(_, _)
Insert(s, x) ==
    IF s = << >> THEN <<x>>
    ELSE IF Rank(x) < Rank(Head(s)) THEN <<x>> \o s
    ELSE <<Head(s)>> \o Insert(Tail(s), x)

RECURSIVE sorted(_)
sorted(s) ==
    IF s = << >> THEN << >> ELSE Insert(sorted(SubSeq(s, 1, Len(s) - 1)), s[Len(s)])

files(dir, tree, force_refresh) ==
    [iterfiles(dir, tree, force_refresh) EXCEPT !.value = sorted(@)]

subdirs(dir, tree, force_refresh) ==
    [itersubdirs(dir, tree, force_refresh) EXCEPT !.value = sorted(@)]

(***************************************************************************)
(* Indexing: compute_file, compute_subdir, index_files, index_subdirs      *)
(***************************************************************************)
\* idx_method(dir.abspath(path)) for the method named k: the value, or the
\* exception.  The hashes open and read the file; getmtime stats the path.
IndexerCall(k, tree, p) ==
    LET n == NodeAt(tree, p) IN
    IF k = GETMTIME
    THEN IF n = Absent THEN [exc |-> OSError, value |-> 0]
         ELSE [exc |-> None, value |-> n.val]
    ELSE IF n.kind = "file" \/ (n.kind = "link" /\ p \notin DirNamed)
         THEN [exc |-> None, value |-> n.val]
         ELSE [exc |-> OSError, value |-> 0]

\* variant: the first failing method ends the record
compute_file_abort(tree, f_path, file_idx_methods) ==
    IF \E k \in file_idx_methods : IndexerCall(k, tree, f_path).exc # None
    THEN EmptyDict
    ELSE [k \in file_idx_methods |-> IndexerCall(k, tree, f_path).value]

\* file_idx_methods is the set of keys of the dict of methods
compute_file(tree, f_path, file_idx_methods) ==
    [k \in {m \in file_idx_methods : IndexerCall(m, tree, f_path).exc = None} |->
        IndexerCall(k, tree, f_path).value]

compute_subdir(tree, d_path, dir_idx_methods) ==
    [k \in {m \in dir_idx_methods : IndexerCall(m, tree, d_path).exc = None} |->
        IndexerCall(k, tree, d_path).value]

index_files(dir, tree, file_idx_methods) ==
    LET Indexed(it) ==
            [dir |-> it.dir, exc |-> it.exc, listed |-> it.listed,
             value |-> [f \in Range(it.value) |-> compute_file(tree, f, file_idx_methods)]]
    IN  Indexed(iterfiles(dir, tree, FALSE))

index_subdirs(dir, tree, dir_idx_methods) ==
    LET Indexed(it) ==
            [dir |-> it.dir, exc |-> it.exc, listed |-> it.listed,
             value |-> [d \in Range(it.value) |-> compute_subdir(tree, d, dir_idx_methods)]]
    IN  Indexed(itersubdirs(dir, tree, FALSE))

(***************************************************************************)
(* update_file_index, update_subdir_index (Snapshot.py 360-426)            *)
(***************************************************************************)
\* the optional list argument files_to_update / dirs_to_update: omitted
\* (None), or a list of relative paths
Omitted == [given |-> FALSE, paths |-> << >>]
Given(paths) == [given |-> TRUE, paths |-> paths]
\* `if files_to_update:': None and the empty list are both false
TruthyList(arg) == arg.given /\ arg.paths # << >>

\* file_index.has_key(f): dict has no has_key method in Python 3, the
\* attribute lookup raises before any call is made
has_key(d, k) == [exc |-> AttributeError, value |-> k \in DOMAIN d]

\* dict.update: the keys of fresh overwrite, the other keys stay
Update(record, fresh) ==
    [k \in DOMAIN record \cup DOMAIN fresh |->
        IF k \in DOMAIN fresh THEN fresh[k] ELSE record[k]]

\* index[f] = record
Store(d, f, record) ==
    [g \in DOMAIN d \cup {f} |-> IF g = f THEN record ELSE d[g]]

\* the loop `for f in files' of the update functions, over an index that
\* is changed in place: it ends at the first exception.  computed[f] is the
\* record compute_file / compute_subdir returns for f
RECURSIVE UpdateLoop(_, _, _)
UpdateLoop(d, paths, computed) ==
    IF paths = << >>
    THEN [exc |-> None, value |-> d]
    ELSE LET f == Head(paths)
             Body(test) ==
                 IF test.exc # None
                 THEN [exc |-> test.exc, value |-> d]
                 ELSE UpdateLoop(
                          Store(d, f, Update(IF test.value THEN d[f] ELSE EmptyDict,
                                             computed[f])),
                          Tail(paths), computed)
         IN  Body(has_key(d, f))

\* the handle afterwards, the exception, the directories listed, the paths
\* looped over and the index afterwards
update_file_index(dir, tree, file_index, file_idx_methods, files_to_update) ==
    LET Loop(d, listed, paths) ==
            LET Done(u) ==
                    [dir |-> d, exc |-> u.exc, listed |-> listed, paths |-> paths,
                     value |-> u.value]
            IN  Done(UpdateLoop(file_index, paths,
                                [f \in Range(paths) |->
                                    compute_file(tree, f, file_idx_methods)]))
        Refreshed(r) ==
            IF r.exc # None
            THEN [dir |-> r.dir, exc |-> r.exc, listed |-> r.listed, paths |-> << >>,
                  value |-> file_index]
            ELSE Loop(depopulate(r.dir), r.listed, r.value)
    IN  IF TruthyList(files_to_update)
        THEN Loop(dir, {}, files_to_update.paths)
        ELSE Refreshed(files(dir, tree, TRUE))

update_subdir_index(dir, tree, subdirs_index, dir_idx_methods, dirs_to_update) ==
    LET Loop(d, listed, paths) ==
            LET Done(u) ==
                    [dir |-> d, exc |-> u.exc, listed |-> listed, paths |-> paths,
                     value |-> u.value]
            IN  Done(UpdateLoop(subdirs_index, paths,
                                [d2 \in Range(paths) |->
                                    compute_subdir(tree, d2, dir_idx_methods)]))
        Refreshed(r) ==
            IF r.exc # None
            THEN [dir |-> r.dir, exc |-> r.exc, listed |-> r.listed, paths |-> << >>,
                  value |-> subdirs_index]
            ELSE Loop(depopulate(r.dir), r.listed, r.value)
    IN  IF TruthyList(dirs_to_update)
        THEN Loop(dir, {}, dirs_to_update.paths)
        ELSE Refreshed(subdirs(dir, tree, TRUE))

(***************************************************************************)
(* snapshot_dir (Snapshot.py 465-490)                                      *)
(***************************************************************************)
\* the handle is local to the call; lines 487 and 488 store the result of
\* index_files under 'subdirs' and the result of index_subdirs under 'files'
snapshot_dir(tree, excludes, file_indexers, dir_indexers) ==
    LET \* lines 485-490, given the results of the three calls before them
        Built(p, fi, si) ==
            [exc    |-> None,
             listed |-> p.listed,
             value  |-> [root    |-> RootIndex(compute_subdir(tree, Dot, dir_indexers)),
                         subdirs |-> fi.value,
                         files   |-> si.value],
             dir    |-> depopulate(si.dir)]
        Line488(p, fi) == Built(p, fi, index_subdirs(fi.dir, tree, file_indexers))
        Line487(p) ==
            IF p.exc # None
            THEN [exc |-> p.exc, listed |-> p.listed, value |-> EmptySnapshot,
                  dir |-> p.dir]
            ELSE Line488(p, index_files(p.dir, tree, dir_indexers))
    IN  Line487(populate(NewDir(excludes), tree, TRUE))

(***************************************************************************)
(* Dir.__init__ and the list objects it takes its patterns from            *)
(* (Snapshot.py 97-118, 465-483)                                           *)
(***************************************************************************)
TypeError == "TypeError"

\* the list objects a handle's patterns can be: the default value of the
\* excludes parameter of Dir.__init__ and that of snapshot_dir, each built
\* once when the function is defined, and a list the caller owns
DirExcludes == "Dir.excludes"
SnapshotDirExcludes == "snapshot_dir.excludes"
CallerExcludes == "caller.excludes"
ListObjects == {DirExcludes, SnapshotDirExcludes, CallerExcludes}

InitialLists ==
    [o \in ListObjects |-> IF o = CallerExcludes THEN <<"sub/">> ELSE DefaultExcludes]

\* the longest pattern list built
MaxPatterns == 5
\* the most Dir objects constructed
MaxDirs == 3

\* the non-empty lines of the exclude files read
ExcludeFiles == {<< >>, <<"sub/">>}

\* Dir(directory, exclude_file, excludes): excludes is the list object bound
\* to the parameter; isdir is os.path.isdir(directory); exclude_file is
\* whether the argument is given; in_dir is whether
\* os.path.isfile(os.path.join(self.path, exclude_file)); in_cwd is whether
\* open(exclude_file), which does not join the path, finds a file, and
\* file_patt are its non-empty lines.  The result is the list objects
\* afterwards, the exception and the object built: the list object its
\* patterns field is, whether its exclude_file field is set, and the
\* patterns its globster was built from
Dir__init__(heap, isdir, exclude_file, excludes, in_dir, in_cwd, file_patt) ==
    LET Built(e, globster) ==
            [exc |-> e,
             lists |-> IF e = None /\ exclude_file /\ in_dir
                       THEN [heap EXCEPT ![excludes] = @ \o file_patt]
                       ELSE heap,
             self |-> [patterns |-> excludes, exclude_file |-> exclude_file,
                       globster |-> globster]]
    IN  IF ~isdir THEN Built(TypeError, << >>)
        ELSE IF ~(exclude_file /\ in_dir) THEN Built(None, heap[excludes])
        ELSE IF ~in_cwd THEN Built(OSError, << >>)
        ELSE Built(None, heap[excludes] \o file_patt)

(***************************************************************************)
(* The generators iterfiles and itersubdirs return (Snapshot.py 189-234)   *)
(***************************************************************************)
\* a generator object: the function it runs, its force_refresh argument,
\* where it is (created: no line run yet; loop: suspended at a yield; done:
\* returned; raised: left by an exception), the index of the list iterator
\* of its for loop, the paths it yielded so far, and the cache as it was
\* when the generator's call of populate returned
NewGen(name, force_refresh) ==
    [name |-> name, force_refresh |-> force_refresh, at |-> "created", i |-> 0,
     yielded |-> << >>, held |-> << >>]

NoGen == [NewGen("none", FALSE) EXCEPT !.at = "none"]

\* the list the generator's for loop iterates: the cache list object of the
\* handle, which populate and depopulate clear and fill in place
LoopList(g, dir) ==
    IF g.name = "iterfiles" THEN dir.files_cache ELSE dir.sub_dirs_cache

\* one round of the for loop: the list iterator gives the element at its
\* index if the list has one there, else the loop and the generator end
LoopStep(g, cache) ==
    IF g.i < Len(cache)
    THEN [g EXCEPT !.at = "loop", !.i = @ + 1, !.yielded = Append(@, cache[g.i + 1])]
    ELSE [g EXCEPT !.at = "done"]

\* next(g): the generator and the handle afterwards, the exception and the
\* directories listed.  The first call runs the body from its first line,
\* populate included
next(g, dir, tree) ==
    IF g.at = "created"
    THEN LET Started(p) ==
                 IF p.exc # None
                 THEN [gen |-> [g EXCEPT !.at = "raised"], dir |-> p.dir, exc |-> p.exc,
                       listed |-> p.listed]
                 ELSE [gen |-> LoopStep([g EXCEPT !.held = LoopList(g, p.dir)],
                                        LoopList(g, p.dir)),
                       dir |-> p.dir, exc |-> None, listed |-> p.listed]
         IN  Started(populate(dir, tree, g.force_refresh))
    ELSE [gen |-> LoopStep(g, LoopList(g, dir)), dir |-> dir, exc |-> None,
          listed |-> {}]

(***************************************************************************)
(* Calls on the handle and their records                                   *)
(***************************************************************************)
\* the record of a call: its name and arguments (arguments a call does not
\* take keep their defaults)
Call(name, force, excludes, file_indexers, dir_indexers) ==
    [name |-> name, force_refresh |-> force, excludes |-> excludes,
     file_indexers |-> file_indexers, dir_indexers |-> dir_indexers,
     to_update |-> Omitted, abspath |-> FALSE]

NoCall == Call("none", FALSE, << >>, {}, {})

\* the handle held in the variables
Self ==
    [patterns |-> patterns, files_cache |-> files_cache,
     sub_dirs_cache |-> sub_dirs_cache, is_populated |-> is_populated]

\* the handle's fields become those of dir
SetSelf(dir) ==
    /\ patterns' = dir.patterns
    /\ files_cache' = dir.files_cache
    /\ sub_dirs_cache' = dir.sub_dirs_cache
    /\ is_populated' = dir.is_populated

\* no tree, no handle and no call: the state of these variables in the
\* specifications of the diff functions
NoTree == [p \in Paths |-> Absent]
\* no snapshot taken yet
NoTrees == [new |-> NoTree, old |-> NoTree, taken |-> 0]
IdleDir ==
    /\ fs = NoTree
    /\ changes = 0
    /\ patterns = << >>
    /\ files_cache = << >>
    /\ sub_dirs_cache = << >>
    /\ is_populated = FALSE
    /\ op = NoCall
    /\ exc = None
    /\ walked = {}
    /\ listing = << >>
    /\ index = EmptyDict
    /\ state = EmptySnapshot
    /\ snapshot_trees = NoTrees

IdleDiff ==
    /\ new_data = EmptyDict
    /\ old_data = EmptyDict
    /\ cmp_key = None
    /\ cmp_res = 0
    /\ dir_snapshot_new = EmptySnapshot
    /\ dir_snapshot_old = EmptySnapshot
    /\ data = EmptyDiff
    /\ pc = "call"

\* no snapshot_dir call running, no generator, the list objects as they are
\* when the module is loaded, no Dir constructed
IdleRun ==
    /\ line = 0
    /\ gen = NoGen
    /\ lists = InitialLists
    /\ handles = << >>

restvars == <<fs, changes, dirvars, callvars, snapshot_trees, runvars>>

(***************************************************************************)
(* SpecEntry: compare_entry on every pair of records                       *)
(***************************************************************************)
InitEntry ==
    /\ new_data \in Records
    /\ old_data \in Records
    /\ cmp_key \in CmpKeys \cup {SHA256}
    /\ cmp_res = 0
    /\ pc = "call"
    /\ dir_snapshot_new = EmptySnapshot
    /\ dir_snapshot_old = EmptySnapshot
    /\ data = EmptyDiff
    /\ IdleDir
    /\ IdleRun

CompareEntry ==
    /\ pc = "call"
    /\ cmp_res' = compare_entry(new_data, old_data, cmp_key)
    /\ pc' = "return"
    /\ UNCHANGED <<new_data, old_data, cmp_key, dir_snapshot_new, dir_snapshot_old, data>>
    /\ UNCHANGED restvars

NextEntry == CompareEntry

SpecEntry == InitEntry /\ [][NextEntry]_vars

(***************************************************************************)
(* SpecDiff: compare_dir_snapshot on every pair of snapshots               *)
(***************************************************************************)
InitDiff ==
    /\ dir_snapshot_new \in Snapshots(NewFileNames)
    /\ dir_snapshot_old \in Snapshots(OldFileNames)
    /\ cmp_key \in CmpKeys
    /\ data = EmptyDiff
    /\ pc = "call"
    /\ new_data = EmptyDict
    /\ old_data = EmptyDict
    /\ cmp_res = 0
    /\ IdleDir
    /\ IdleRun

CompareDirSnapshot ==
    /\ pc = "call"
    /\ \E r \in compare_dir_snapshot(dir_snapshot_new, dir_snapshot_old, cmp_key) :
          /\ data' = r.value
          /\ pc' = IF r.exc = None THEN "return" ELSE r.exc
    /\ UNCHANGED <<new_data, old_data, cmp_key, cmp_res, dir_snapshot_new, dir_snapshot_old>>
    /\ UNCHANGED restvars

NextDiff == CompareDirSnapshot

SpecDiff == InitDiff /\ [][NextDiff]_vars

(***************************************************************************)
(* SpecShape: compare_dir_snapshot on snapshots that lack top-level keys   *)
(***************************************************************************)
TopKeys == {"root", "subdirs", "files"}

\* a snapshot dict without the top-level keys in keys
Without(snapshot, keys) == [k \in DOMAIN snapshot \ keys |-> snapshot[k]]

\* snapshots of at most one file and one directory, with every choice of
\* missing top-level keys
ShapedSnapshots ==
    {Without(snapshot, keys) : snapshot \in Snapshots({"a.txt"}), keys \in SUBSET TopKeys}

InitShape ==
    /\ dir_snapshot_new \in ShapedSnapshots
    /\ dir_snapshot_old \in ShapedSnapshots
    /\ cmp_key \in {None, XXHASH}
    /\ data = EmptyDiff
    /\ pc = "call"
    /\ new_data = EmptyDict
    /\ old_data = EmptyDict
    /\ cmp_res = 0
    /\ IdleDir
    /\ IdleRun

SpecShape == InitShape /\ [][NextDiff]_vars

(***************************************************************************)
(* Spec: a directory tree that changes, one Dir handle on it, and the      *)
(* module's functions called on the handle and on the tree                 *)
(***************************************************************************)
\* number of changes made to the tree in one behaviour
MaxChanges == 1

\* the dicts of indexing methods the calls are made with (their key sets)
MethodSets == {{XXHASH}, Keys}
\* the file_indexers and dir_indexers snapshot_dir is called with: the
\* defaults, and both methods for files with getmtime for directories
SnapshotMethods == {<<{XXHASH}, {}>>, <<Keys, {GETMTIME}>>}

Init ==
    /\ fs \in Trees
    /\ changes = 0
    /\ patterns \in ExcludeLists
    /\ files_cache = << >>
    /\ sub_dirs_cache = << >>
    /\ is_populated = FALSE
    /\ op = NoCall
    /\ exc = None
    /\ walked = {}
    /\ listing = << >>
    /\ index = EmptyDict
    /\ state = EmptySnapshot
    /\ snapshot_trees = NoTrees
    /\ IdleDiff
    /\ IdleRun

\* the tree after path p became node n (what lies below a removed path is
\* removed with it)
Changed(tree, p, n) ==
    [q \in Paths |->
        IF q = p THEN n
        ELSE IF n = Absent /\ p \in Ancestors(q) THEN Absent
        ELSE tree[q]]

\* the environment creates, removes, replaces or rewrites one path
Change ==
    /\ changes < MaxChanges
    /\ \E p \in Paths : \E n \in NodesOf(p) :
          /\ n # fs[p]
          /\ Consistent(Changed(fs, p, n))
          /\ fs' = Changed(fs, p, n)
    /\ changes' = changes + 1
    /\ UNCHANGED <<diffvars, runvars, dirvars, callvars, snapshot_trees>>

\* what a call leaves in the variables of the last call
Leaves(call, r, l, i, s) ==
    /\ op' = call
    /\ exc' = r.exc
    /\ walked' = r.listed
    /\ listing' = l
    /\ index' = i
    /\ state' = s

Populate ==
    \E force \in BOOLEAN :
        \E r \in {populate(Self, fs, force)} :
        /\ SetSelf(r.dir)
        /\ Leaves(Call("populate", force, << >>, {}, {}), r, << >>, EmptyDict, EmptySnapshot)
        /\ UNCHANGED <<diffvars, runvars, fs, changes, snapshot_trees>>

Depopulate ==
    /\ SetSelf(depopulate(Self))
    /\ Leaves(Call("depopulate", FALSE, << >>, {}, {}), [exc |-> None, listed |-> {}],
              << >>, EmptyDict, EmptySnapshot)
    /\ UNCHANGED <<diffvars, runvars, fs, changes, snapshot_trees>>

Files ==
    \E force \in BOOLEAN :
        \E r \in {files(Self, fs, force)} :
        /\ SetSelf(r.dir)
        /\ Leaves(Call("files", force, << >>, {}, {}), r, r.value, EmptyDict, EmptySnapshot)
        /\ UNCHANGED <<diffvars, runvars, fs, changes, snapshot_trees>>

Subdirs ==
    \E force \in BOOLEAN :
        \E r \in {subdirs(Self, fs, force)} :
        /\ SetSelf(r.dir)
        /\ Leaves(Call("subdirs", force, << >>, {}, {}), r, r.value, EmptyDict, EmptySnapshot)
        /\ UNCHANGED <<diffvars, runvars, fs, changes, snapshot_trees>>

IndexFiles ==
    \E methods \in MethodSets :
        \E r \in {index_files(Self, fs, methods)} :
        /\ SetSelf(r.dir)
        /\ Leaves(Call("index_files", FALSE, << >>, methods, {}), r, << >>, r.value,
                  EmptySnapshot)
        /\ UNCHANGED <<diffvars, runvars, fs, changes, snapshot_trees>>

IndexSubdirs ==
    \E methods \in MethodSets :
        \E r \in {index_subdirs(Self, fs, methods)} :
        /\ SetSelf(r.dir)
        /\ Leaves(Call("index_subdirs", FALSE, << >>, {}, methods), r, << >>, r.value,
                  EmptySnapshot)
        /\ UNCHANGED <<diffvars, runvars, fs, changes, snapshot_trees>>

SnapshotDir ==
    \E excludes \in ExcludeLists, m \in SnapshotMethods :
        \E r \in {snapshot_dir(fs, excludes, m[1], m[2])} :
        /\ Leaves(Call("snapshot_dir", FALSE, excludes, m[1], m[2]), r, << >>, EmptyDict,
                  r.value)
        /\ UNCHANGED <<diffvars, runvars, fs, changes, dirvars, snapshot_trees>>

Next ==
    \/ Change
    \/ Populate
    \/ Depopulate
    \/ Files
    \/ Subdirs
    \/ IndexFiles
    \/ IndexSubdirs
    \/ SnapshotDir

Spec == Init /\ [][Next]_vars

(***************************************************************************)
(* SpecUpdate: indexes of a changing tree built with index_files and       *)
(* index_subdirs and updated with update_file_index, update_subdir_index   *)
(***************************************************************************)
\* the lists the update functions are called with
UpdateFileLists == {Omitted, Given(<< >>), Given(<<"z.txt">>), Given(<<"z.txt", "sub/b.txt">>)}
UpdateDirLists == {Omitted, Given(<< >>), Given(<<"sub">>)}

\* the index returned by the last call is passed on as the index to update;
\* listing is the list dir.files() / dir.subdirs() returned to the call
UpdateFileIndex ==
    \E methods \in MethodSets, list \in UpdateFileLists :
        \E r \in {update_file_index(Self, fs, index, methods, list)} :
        /\ SetSelf(r.dir)
        /\ Leaves([Call("update_file_index", FALSE, << >>, methods, {})
                      EXCEPT !.to_update = list],
                  r, IF TruthyList(list) THEN << >> ELSE r.paths, r.value, EmptySnapshot)
        /\ UNCHANGED <<diffvars, runvars, fs, changes, snapshot_trees>>

UpdateSubdirIndex ==
    \E methods \in MethodSets, list \in UpdateDirLists :
        \E r \in {update_subdir_index(Self, fs, index, methods, list)} :
        /\ SetSelf(r.dir)
        /\ Leaves([Call("update_subdir_index", FALSE, << >>, {}, methods)
                      EXCEPT !.to_update = list],
                  r, IF TruthyList(list) THEN << >> ELSE r.paths, r.value, EmptySnapshot)
        /\ UNCHANGED <<diffvars, runvars, fs, changes, snapshot_trees>>

NextUpdate ==
    \/ Change
    \/ IndexFiles
    \/ IndexSubdirs
    \/ UpdateFileIndex
    \/ UpdateSubdirIndex

SpecUpdate == Init /\ [][NextUpdate]_vars

(***************************************************************************)
(* SpecPaths: the iterators of the handle, with relative and absolute      *)
(* paths, over a changing tree                                             *)
(***************************************************************************)
IterFiles ==
    \E abspath \in BOOLEAN, force \in BOOLEAN :
        \E r \in {iterfiles_abspath(Self, fs, abspath, force)} :
        /\ SetSelf(r.dir)
        /\ Leaves([Call("iterfiles", force, << >>, {}, {}) EXCEPT !.abspath = abspath],
                  r, r.value, EmptyDict, EmptySnapshot)
        /\ UNCHANGED <<diffvars, runvars, fs, changes, snapshot_trees>>

IterSubdirs ==
    \E abspath \in BOOLEAN, force \in BOOLEAN :
        \E r \in {itersubdirs_abspath(Self, fs, abspath, force)} :
        /\ SetSelf(r.dir)
        /\ Leaves([Call("itersubdirs", force, << >>, {}, {}) EXCEPT !.abspath = abspath],
                  r, r.value, EmptyDict, EmptySnapshot)
        /\ UNCHANGED <<diffvars, runvars, fs, changes, snapshot_trees>>

NextPaths ==
    \/ Change
    \/ IterFiles
    \/ IterSubdirs

SpecPaths == Init /\ [][NextPaths]_vars

(***************************************************************************)
(* SpecSteps: snapshot_dir run line by line on a changing tree; the handle *)
(* in the variables is the one local to the call                           *)
(***************************************************************************)
\* line 483 (the call and the construction of the handle)
SnapshotDirCalled ==
    /\ line = 0
    /\ \E excludes \in ExcludeLists, m \in SnapshotMethods :
          /\ SetSelf(NewDir(excludes))
          /\ op' = Call("snapshot_dir", FALSE, excludes, m[1], m[2])
    /\ exc' = None
    /\ walked' = {}
    /\ state' = EmptySnapshot
    /\ line' = 484
    /\ UNCHANGED <<diffvars, fs, changes, listing, index, snapshot_trees, gen, lists,
                   handles>>

\* line 484: an exception leaves the call
SnapshotDirPopulate ==
    /\ line = 484
    /\ \E r \in {populate(Self, fs, TRUE)} :
          /\ SetSelf(r.dir)
          /\ exc' = r.exc
          /\ walked' = r.listed
          /\ line' = IF r.exc = None THEN 486 ELSE 0
    /\ UNCHANGED <<diffvars, fs, changes, op, listing, index, state, snapshot_trees,
                   gen, lists, handles>>

\* lines 485-486
SnapshotDirRoot ==
    /\ line = 486
    /\ state' = [state EXCEPT
                    !.root = RootIndex(compute_subdir(fs, Dot, op.dir_indexers))]
    /\ line' = 487
    /\ UNCHANGED <<diffvars, fs, changes, dirvars, op, exc, walked, listing, index,
                   snapshot_trees, gen, lists, handles>>

\* line 487
SnapshotDirSubdirs ==
    /\ line = 487
    /\ \E r \in {index_files(Self, fs, op.dir_indexers)} :
          /\ SetSelf(r.dir)
          /\ exc' = r.exc
          /\ walked' = walked \cup r.listed
          /\ state' = IF r.exc = None THEN [state EXCEPT !.subdirs = r.value] ELSE state
          /\ line' = IF r.exc = None THEN 488 ELSE 0
    /\ UNCHANGED <<diffvars, fs, changes, op, listing, index, snapshot_trees, gen,
                   lists, handles>>

\* line 488
SnapshotDirFiles ==
    /\ line = 488
    /\ \E r \in {index_subdirs(Self, fs, op.file_indexers)} :
          /\ SetSelf(r.dir)
          /\ exc' = r.exc
          /\ walked' = walked \cup r.listed
          /\ state' = IF r.exc = None THEN [state EXCEPT !.files = r.value] ELSE state
          /\ line' = IF r.exc = None THEN 489 ELSE 0
    /\ UNCHANGED <<diffvars, fs, changes, op, listing, index, snapshot_trees, gen,
                   lists, handles>>

\* line 489
SnapshotDirDepopulate ==
    /\ line = 489
    /\ SetSelf(depopulate(Self))
    /\ line' = 490
    /\ UNCHANGED <<diffvars, fs, changes, callvars, snapshot_trees, gen, lists, handles>>

\* line 490: the call returns state
SnapshotDirReturn ==
    /\ line = 490
    /\ line' = 0
    /\ op' = [op EXCEPT !.name = "snapshot_dir returned"]
    /\ UNCHANGED <<diffvars, fs, changes, dirvars, exc, walked, listing, index, state,
                   snapshot_trees, gen, lists, handles>>

NextSteps ==
    \/ Change
    \/ SnapshotDirCalled
    \/ SnapshotDirPopulate
    \/ SnapshotDirRoot
    \/ SnapshotDirSubdirs
    \/ SnapshotDirFiles
    \/ SnapshotDirDepopulate
    \/ SnapshotDirReturn

SpecSteps == Init /\ [][NextSteps]_vars

(***************************************************************************)
(* SpecIter: a generator of iterfiles / itersubdirs consumed step by step  *)
(* while the handle is populated and depopulated and the tree changes      *)
(***************************************************************************)
\* g = dir.iterfiles(force_refresh=...) or dir.itersubdirs(...): no line of
\* the body runs before the first next(g)
IterCalled ==
    /\ gen.at \in {"none", "done", "raised"}
    /\ \E name \in {"iterfiles", "itersubdirs"}, force \in BOOLEAN :
          /\ gen' = NewGen(name, force)
          /\ op' = Call(name, force, << >>, {}, {})
    /\ exc' = None
    /\ walked' = {}
    /\ UNCHANGED <<diffvars, fs, changes, dirvars, listing, index, state, snapshot_trees,
                   line, lists, handles>>

\* next(g)
IterNext ==
    /\ gen.at \in {"created", "loop"}
    /\ \E r \in {next(gen, Self, fs)} :
          /\ gen' = r.gen
          /\ SetSelf(r.dir)
          /\ exc' = r.exc
          /\ walked' = r.listed
          /\ op' = Call("next", gen.force_refresh, << >>, {}, {})
    /\ UNCHANGED <<diffvars, fs, changes, listing, index, state, snapshot_trees, line,
                   lists, handles>>

NextIter ==
    \/ Change
    \/ Populate
    \/ Depopulate
    \/ IterCalled
    \/ IterNext

SpecIter == Init /\ [][NextIter]_vars

(***************************************************************************)
(* SpecDirs: Dir objects constructed one after the other, with the default *)
(* excludes or the caller's list, with and without an exclude file         *)
(***************************************************************************)
InitDirs ==
    /\ IdleDir
    /\ IdleDiff
    /\ IdleRun

\* Dir(directory, exclude_file, excludes), excludes defaulted or the
\* caller's list
DirConstructed ==
    /\ Len(handles) < MaxDirs
    /\ \E isdir \in BOOLEAN, exclude_file \in BOOLEAN,
          excludes \in {DirExcludes, CallerExcludes},
          in_dir \in BOOLEAN, in_cwd \in BOOLEAN, file_patt \in ExcludeFiles :
          /\ Len(lists[excludes]) + Len(file_patt) <= MaxPatterns
          /\ \E r \in {Dir__init__(lists, isdir, exclude_file, excludes, in_dir, in_cwd,
                                   file_patt)} :
                /\ lists' = r.lists
                /\ exc' = r.exc
                /\ handles' = IF r.exc = None THEN Append(handles, r.self) ELSE handles
          /\ op' = Call("Dir", FALSE, << >>, {}, {})
    /\ UNCHANGED <<diffvars, fs, changes, dirvars, walked, listing, index, state,
                   snapshot_trees, line, gen>>

\* line 483 of snapshot_dir called without excludes: Dir(targetDir,
\* excludes=excludes) with the default list of snapshot_dir
SnapshotDirConstructed ==
    /\ Len(handles) < MaxDirs
    /\ \E isdir \in BOOLEAN :
          \E r \in {Dir__init__(lists, isdir, FALSE, SnapshotDirExcludes, FALSE, FALSE,
                                << >>)} :
             /\ lists' = r.lists
             /\ exc' = r.exc
             /\ handles' = IF r.exc = None THEN Append(handles, r.self) ELSE handles
    /\ op' = Call("snapshot_dir", FALSE, << >>, {}, {})
    /\ UNCHANGED <<diffvars, fs, changes, dirvars, walked, listing, index, state,
                   snapshot_trees, line, gen>>

NextDirs ==
    \/ DirConstructed
    \/ SnapshotDirConstructed

SpecDirs == InitDirs /\ [][NextDirs]_vars

(***************************************************************************)
(* SpecSnap: snapshots of a changing tree taken with snapshot_dir and      *)
(* diffed with compare_dir_snapshot                                        *)
(***************************************************************************)
InitSnap ==
    /\ fs \in Trees
    /\ changes = 0
    /\ patterns = << >>
    /\ files_cache = << >>
    /\ sub_dirs_cache = << >>
    /\ is_populated = FALSE
    /\ op = NoCall
    /\ exc = None
    /\ walked = {}
    /\ listing = << >>
    /\ index = EmptyDict
    /\ state = EmptySnapshot
    /\ snapshot_trees = NoTrees
    /\ IdleDiff
    /\ IdleRun

\* a snapshot is taken; the program keeps it as the new snapshot and the
\* one it held as the old snapshot
TakeSnapshot ==
    \E excludes \in ExcludeLists, m \in SnapshotMethods :
        \E r \in {snapshot_dir(fs, excludes, m[1], m[2])} :
        /\ Leaves(Call("snapshot_dir", FALSE, excludes, m[1], m[2]), r, << >>, EmptyDict,
                  r.value)
        /\ IF r.exc = None
           THEN /\ dir_snapshot_new' = r.value
                /\ dir_snapshot_old' = dir_snapshot_new
                /\ snapshot_trees' = [new |-> fs, old |-> snapshot_trees.new,
                                    taken |-> IF snapshot_trees.taken = 0 THEN 1 ELSE 2]
           ELSE UNCHANGED <<dir_snapshot_new, dir_snapshot_old, snapshot_trees>>
        /\ data' = EmptyDiff
        /\ pc' = "call"
        /\ UNCHANGED <<new_data, old_data, cmp_key, cmp_res, fs, changes, dirvars, runvars>>

\* the two snapshots held are diffed
DiffSnapshots ==
    /\ pc = "call"
    /\ \E key \in CmpKeys :
          \E r \in compare_dir_snapshot(dir_snapshot_new, dir_snapshot_old, key) :
              /\ cmp_key' = key
              /\ data' = r.value
              /\ pc' = IF r.exc = None THEN "return" ELSE r.exc
    /\ UNCHANGED <<new_data, old_data, cmp_res, dir_snapshot_new, dir_snapshot_old>>
    /\ UNCHANGED restvars

NextSnap ==
    \/ Change
    \/ TakeSnapshot
    \/ DiffSnapshots

SpecSnap == InitSnap /\ [][NextSnap]_vars

(***************************************************************************)
(* Claims on compare_dir_snapshot (SpecDiff)                               *)
(***************************************************************************)
Returned == pc = "return"

NewFiles == DOMAIN dir_snapshot_new["files"]
OldFiles == DOMAIN dir_snapshot_old["files"]
CommonFiles == NewFiles \cap OldFiles

\* the four file lists of the returned diff
FileLists == <<data.created, data.deleted, data.modified, data.modified_unknown>>

\* C1: the created, deleted, modified and modified_unknown lists of a
\* returned diff are pairwise disjoint, hold no path twice, and hold only
\* file paths of the two snapshots; so every file path of new.files and
\* old.files is in exactly one list or in none (unchanged).
C1_ClassifiedOnce ==
    Returned =>
        /\ \A i, j \in 1..4 : i # j => Range(FileLists[i]) \cap Range(FileLists[j]) = {}
        /\ \A i \in 1..4 : NoDup(FileLists[i])
        /\ \A i \in 1..4 : Range(FileLists[i]) \subseteq NewFiles \cup OldFiles

\* a diff with a created, a modified and an unknown file
C1_Witness ==
    /\ Returned
    /\ Len(data.created) = 1
    /\ Len(data.modified) = 1
    /\ Len(data.modified_unknown) = 1

\* C2: deleted holds exactly the file paths of old that new lacks, created
\* exactly the file paths of new that old lacks, deleted_dirs exactly the
\* subdirectory paths of old that new lacks, whatever the records and cmp_key.
C2_SetDifferences ==
    Returned =>
        /\ Range(data.deleted) = OldFiles \ NewFiles
        /\ Range(data.created) = NewFiles \ OldFiles
        /\ Range(data.deleted_dirs) =
              DOMAIN dir_snapshot_old["subdirs"] \ DOMAIN dir_snapshot_new["subdirs"]

\* a diff with deleted and created files and a deleted directory, taken
\* with a cmp_key
C2_Witness ==
    /\ Returned
    /\ cmp_key # None
    /\ Len(data.deleted) = 1
    /\ Len(data.created) = 2
    /\ Len(data.deleted_dirs) = 1

\* the result of compare_entry for a file of both snapshots
EntryResult(f) ==
    compare_entry(dir_snapshot_new["files"][f], dir_snapshot_old["files"][f], cmp_key)

\* the scenario of the design: a.txt edited, b.txt deleted, c.txt created,
\* all records made by the one indexing method k
IsScenario(k) ==
    /\ NewFiles = {"a.txt", "c.txt"}
    /\ OldFiles = {"a.txt", "b.txt"}
    /\ \A f \in NewFiles : DOMAIN dir_snapshot_new["files"][f] = {k}
    /\ \A f \in OldFiles : DOMAIN dir_snapshot_old["files"][f] = {k}
    /\ dir_snapshot_new["files"]["a.txt"][k] # dir_snapshot_old["files"]["a.txt"][k]
    /\ cmp_key \in {None, k}

\* C3: a file of both snapshots is in modified iff compare_entry gives 1, in
\* modified_unknown iff it gives -1, in neither iff it gives 0; and the
\* scenario yields created=[c.txt], deleted=[b.txt], modified=[a.txt],
\* modified_unknown=[].
C3_RoutedByCompareEntry ==
    Returned =>
        /\ \A f \in CommonFiles :
              /\ f \in Range(data.modified) <=> EntryResult(f) = 1
              /\ f \in Range(data.modified_unknown) <=> EntryResult(f) = -1
              /\ f \notin Range(data.modified) \cup Range(data.modified_unknown)
                    <=> EntryResult(f) = 0
        /\ \A k \in Keys :
              IsScenario(k) =>
                  /\ data.created = <<"c.txt">>
                  /\ data.deleted = <<"b.txt">>
                  /\ data.modified = <<"a.txt">>
                  /\ data.modified_unknown = << >>

\* the scenario was diffed
C3_Witness == Returned /\ IsScenario(XXHASH) /\ cmp_key = None

\* the records of a common file give no basis for the comparison asked for
NoBasis(f) ==
    LET n == DOMAIN dir_snapshot_new["files"][f]
        o == DOMAIN dir_snapshot_old["files"][f]
    IN  \/ n \cap o = {}
        \/ cmp_key # None /\ ~(cmp_key \in n /\ cmp_key \in o)

Restrict(record, K) == [k \in DOMAIN record \cap K |-> record[k]]

SharedKeys == DOMAIN new_data \cap DOMAIN old_data

\* C4: without a cmp_key compare_entry returns -1 when the records share no
\* key, 1 when some shared key has different values, 0 when they share a key
\* and all shared keys have equal values; the keys of one record only do not
\* influence the result.
C4_NoKeyComparison ==
    (Returned /\ cmp_key = None) =>
        /\ SharedKeys = {} => cmp_res = -1
        /\ (\E k \in SharedKeys : new_data[k] # old_data[k]) => cmp_res = 1
        /\ (SharedKeys # {} /\ \A k \in SharedKeys : new_data[k] = old_data[k])
              => cmp_res = 0
        /\ \A n, o \in Records :
              (Restrict(n, DOMAIN o) = Restrict(new_data, SharedKeys)
                 /\ Restrict(o, DOMAIN n) = Restrict(old_data, SharedKeys))
              => compare_entry(n, o, None) = cmp_res

\* two records with an equal shared key and a key of their own each
C4_Witness ==
    /\ Returned
    /\ cmp_key = None
    /\ cmp_res = 0
    /\ DOMAIN new_data = Keys
    /\ DOMAIN old_data = {XXHASH}

\* C5: with a cmp_key compare_entry returns 1 when the key is in both
\* records with different values, -1 when it is in both with equal values,
\* 0 when either record lacks it; the other keys do not influence the result.
C5_KeyComparison ==
    (Returned /\ cmp_key # None) =>
        LET both == cmp_key \in DOMAIN new_data /\ cmp_key \in DOMAIN old_data IN
        /\ (both /\ new_data[cmp_key] # old_data[cmp_key]) => cmp_res = 1
        /\ (both /\ new_data[cmp_key] = old_data[cmp_key]) => cmp_res = -1
        /\ ~both => cmp_res = 0
        /\ \A n, o \in Records :
              (Restrict(n, {cmp_key}) = Restrict(new_data, {cmp_key})
                 /\ Restrict(o, {cmp_key}) = Restrict(old_data, {cmp_key}))
              => compare_entry(n, o, cmp_key) = cmp_res

\* equal values under the cmp_key, different values under the other key
C5_Witness ==
    /\ Returned
    /\ cmp_key = XXHASH
    /\ cmp_res = -1
    /\ DOMAIN new_data = Keys
    /\ DOMAIN old_data = Keys
    /\ new_data[GETMTIME] # old_data[GETMTIME]

(***************************************************************************)
(* Claims on the traversal, the indexing and snapshot_dir (Spec, SpecSnap) *)
(***************************************************************************)
\* the files and subdirectories of a tree that a traversal with the
\* patterns pats retains: no symbolic link, not excluded, and reached through
\* directories that are neither links nor excluded
Reached(tree, pats, p) ==
    /\ ~Matches(pats, p)
    /\ \A a \in Ancestors(p) : tree[a].kind = "dir" /\ ~Matches(pats, a)

RetainedFiles(tree, pats) ==
    {p \in Paths : tree[p].kind \in {"file", "locked"} /\ Reached(tree, pats, p)}

RetainedSubdirs(tree, pats) ==
    {p \in Paths : tree[p].kind = "dir" /\ Reached(tree, pats, p)}

\* the step is a call of the function named name that returned
Called(name) == op'.name = name /\ exc' = None /\ fs' = fs

\* C7: a snapshot built by snapshot_dir has a files map whose keys are the
\* retained file paths, each with the record of the file indexers, and a
\* subdirs map whose keys are the retained subdirectory paths, each with the
\* record of the directory indexers.
C7_SnapshotMaps ==
    [][Called("snapshot_dir") =>
          /\ DOMAIN state'.files = RetainedFiles(fs, op'.excludes)
          /\ \A f \in DOMAIN state'.files :
                state'.files[f] = compute_file(fs, f, op'.file_indexers)
          /\ DOMAIN state'.subdirs = RetainedSubdirs(fs, op'.excludes)
          /\ \A d \in DOMAIN state'.subdirs :
                state'.subdirs[d] = compute_subdir(fs, d, op'.dir_indexers)]_vars

\* the directories that the new snapshot's tree has and the old snapshot's
\* tree lacks, the trees being equal otherwise
BrandNewDirs ==
    {d \in DirNamed :
        /\ snapshot_trees.old[d] = Absent
        /\ snapshot_trees.new = Changed(snapshot_trees.old, d, Node("dir", 1))}

\* C8: when the new snapshot's tree has a brand-new subdirectory that the
\* old snapshot's tree lacks, the diff has an empty deleted_dirs list and the
\* new directory's path is in none of the five lists.
C8_NewDirNotReported ==
    (pc = "return" /\ snapshot_trees.taken = 2) =>
        \A d \in BrandNewDirs :
            /\ data.deleted_dirs = << >>
            /\ d \notin Range(data.created) \cup Range(data.deleted)
                   \cup Range(data.modified) \cup Range(data.modified_unknown)
                   \cup Range(data.deleted_dirs)

\* the methods whose call succeeds for an entry
Succeeding(methods, tree, p) == {k \in methods : IndexerCall(k, tree, p).exc = None}

\* C9: after index_files or index_subdirs every iterated entry is in the
\* index, and its record holds exactly the keys of the methods that did not
\* raise for it, with their values; a method that raises removes nothing else.
C9_FailedIndexerOmitted ==
    [][/\ Called("index_files") =>
            /\ DOMAIN index' = Range(files_cache')
            /\ \A f \in DOMAIN index' :
                  /\ DOMAIN index'[f] = Succeeding(op'.file_indexers, fs, f)
                  /\ \A k \in DOMAIN index'[f] :
                        index'[f][k] = IndexerCall(k, fs, f).value
       /\ Called("index_subdirs") =>
            /\ DOMAIN index' = Range(sub_dirs_cache')
            /\ \A d \in DOMAIN index' :
                  /\ DOMAIN index'[d] = Succeeding(op'.dir_indexers, fs, d)
                  /\ \A k \in DOMAIN index'[d] :
                        index'[d][k] = IndexerCall(k, fs, d).value]_vars

\* index_files ran with two methods over two files, and the hash failed
\* for the first file only
C9_Witness ==
    /\ op.name = "index_files"
    /\ op.file_indexers = Keys
    /\ exc = None
    /\ DOMAIN index = {"z.txt", "sub/b.txt"}
    /\ DOMAIN index["z.txt"] = {GETMTIME}
    /\ DOMAIN index["sub/b.txt"] = Keys

\* the patterns of the handle the last call walked with
WalkPatterns == IF op.name = "snapshot_dir" THEN op.excludes ELSE patterns

\* a path lies beneath an excluded directory
BeneathExcluded(pats, p) == \E a \in Ancestors(p) : Matches(pats, a)

\* C10: a traversal of a tree that has an excluded subdirectory prunes it
\* and goes on: the call does not fail at the excluded entry, the walk lists
\* no excluded directory and nothing beneath one, and no path beneath an
\* excluded directory is in the files cache, the subdirs cache, a list
\* returned by files() or subdirs(), or a map of a built snapshot.
C10_ExcludedPruned ==
    /\ exc # AttributeError
    /\ \A d \in walked :
          ~Matches(WalkPatterns, d) /\ ~BeneathExcluded(WalkPatterns, d)
    /\ \A p \in Range(files_cache) \cup Range(sub_dirs_cache) \cup Range(listing) :
          ~BeneathExcluded(patterns, p)
    /\ \A p \in DOMAIN state.files \cup DOMAIN state.subdirs :
          ~BeneathExcluded(op.excludes, p)

(***************************************************************************)
(* Claims on the handle: walk, populate, depopulate (Spec)                 *)
(***************************************************************************)
\* the step is a call on the handle that walked the tree
Walks == fs' = fs /\ Dot \in walked' /\ op'.name # "snapshot_dir"

\* the path is a symbolic link or lies behind one
LinkOrBehind(tree, p) ==
    tree[p].kind = "link" \/ \E a \in Ancestors(p) : tree[a].kind = "link"

\* the paths named by a triple of the walk
TriplePaths(t) ==
    (IF t.root = Dot THEN {} ELSE {t.root})
        \cup {Join(t.root, n) : n \in Range(t.dirs) \cup Range(t.files)}

\* C11: no triple yielded by walk and neither cache after a populate that
\* walked names a symbolic link (to a file or to a directory) or a path that
\* lies behind a symbolic link, whatever the exclusion patterns.
C11_NoSymlinks ==
    [][Walks =>
          /\ \A i \in DOMAIN walk(fs, patterns).triples :
                \A p \in TriplePaths(walk(fs, patterns).triples[i]) :
                    ~LinkOrBehind(fs, p)
          /\ \A p \in Range(files_cache') \cup Range(sub_dirs_cache') :
                ~LinkOrBehind(fs, p)]_vars

\* a populate completed on a tree with a link to a file, and a link to a
\* directory that has a file behind it
C11_Witness ==
    /\ op.name = "populate"
    /\ exc = None
    /\ is_populated
    /\ Dot \in walked
    /\ changes = 0
    /\ fs["z.txt"].kind = "link"
    /\ fs["sub"].kind = "link"
    /\ fs["sub/b.txt"] # Absent

\* C12: populate(force_refresh=False) on a populated handle walks nothing
\* and leaves the files cache, the subdirs cache and the populated flag as
\* they were, also when the tree changed since the caches were filled.
C12_PopulateNoOp ==
    [][(fs' = fs /\ op'.name = "populate" /\ ~op'.force_refresh /\ is_populated) =>
          /\ walked' = {}
          /\ exc' = None
          /\ UNCHANGED dirvars]_vars

\* populate(False) ran on a populated handle whose files cache no longer
\* agrees with the changed tree
C12_Witness ==
    /\ op.name = "populate"
    /\ ~op.force_refresh
    /\ is_populated
    /\ walked = {}
    /\ changes = 1
    /\ Range(files_cache) # RetainedFiles(fs, patterns)

\* C13: a populate whose walk raises leaves both caches empty and the
\* populated flag false, and the flag becomes true only in a call whose walk
\* ran to its end without raising.
C13_FailedWalkClears ==
    [][/\ (Walks /\ exc' # None) =>
            /\ files_cache' = << >>
            /\ sub_dirs_cache' = << >>
            /\ ~is_populated'
       /\ (is_populated' /\ ~is_populated) =>
            /\ exc' = None
            /\ Dot \in walked']_vars

\* C14: whenever the handle is populated, its two caches are those of one
\* completed traversal: either they were such before the step and the step
\* left them alone, or the step walked the tree to the end and the caches
\* hold the retained files and the retained subdirectories of that tree,
\* each path once.
C14_PopulatedIsOneTraversal ==
    [][is_populated' =>
          \/ /\ is_populated
             /\ files_cache' = files_cache
             /\ sub_dirs_cache' = sub_dirs_cache
          \/ /\ Walks
             /\ exc' = None
             /\ NoDup(files_cache')
             /\ NoDup(sub_dirs_cache')
             /\ Range(files_cache') = RetainedFiles(fs, patterns)
             /\ Range(sub_dirs_cache') = RetainedSubdirs(fs, patterns)]_vars

\* C15: depopulate leaves both caches empty and the populated flag false
\* whatever the handle held, and a second depopulate changes nothing more;
\* populate and depopulate clear the two caches together: a step of either
\* that walks fills both caches from that one walk, and a step of either
\* that does not walk and changes the handle leaves both caches empty.
C15_DepopulateClearsBoth ==
    [][/\ (fs' = fs /\ op'.name = "depopulate") =>
            /\ files_cache' = << >>
            /\ sub_dirs_cache' = << >>
            /\ ~is_populated'
            /\ patterns' = patterns
            /\ depopulate(depopulate(Self)) = depopulate(Self)
       /\ (fs' = fs /\ op'.name \in {"populate", "depopulate"}) =>
            IF Dot \in walked'
            THEN /\ files_cache' = CachedFiles(walk(fs, patterns).triples)
                 /\ sub_dirs_cache' = CachedDirs(walk(fs, patterns).triples)
            ELSE dirvars' # dirvars =>
                     files_cache' = << >> /\ sub_dirs_cache' = << >>]_vars

\* depopulate ran on a handle over a tree that has a file and a
\* subdirectory to retain
C15_Witness ==
    /\ op.name = "depopulate"
    /\ files_cache = << >>
    /\ sub_dirs_cache = << >>
    /\ ~is_populated
    /\ RetainedFiles(fs, patterns) # {}
    /\ RetainedSubdirs(fs, patterns) # {}

(***************************************************************************)
(* Claims on update_file_index and update_subdir_index (SpecUpdate)        *)
(***************************************************************************)
\* the step is a call of one of the two update functions
Updates == fs' = fs /\ op'.name \in {"update_file_index", "update_subdir_index"}

\* the paths the call was to update: those of its list, or the refreshed
\* listing when the list is omitted or empty
UpdatedPaths ==
    IF TruthyList(op'.to_update) THEN Range(op'.to_update.paths) ELSE Range(listing')

\* the record the supplied indexers give for a path
Computed(f) ==
    IF op'.name = "update_file_index"
    THEN compute_file(fs, f, op'.file_indexers)
    ELSE compute_subdir(fs, f, op'.dir_indexers)

\* C16: an update only merges: the record of an updated path of the index
\* holds afterwards every key the supplied indexers produced, with the fresh
\* value, and every other key it held before, with its old value; a path of
\* the index that is not updated keeps its record and is not removed.
C16_UpdateMerges ==
    [][Updates =>
          /\ \A f \in UpdatedPaths \cap DOMAIN index :
                /\ f \in DOMAIN index'
                /\ \A k \in DOMAIN Computed(f) :
                      k \in DOMAIN index'[f] /\ index'[f][k] = Computed(f)[k]
                /\ \A k \in DOMAIN index[f] \ DOMAIN Computed(f) :
                      k \in DOMAIN index'[f] /\ index'[f][k] = index[f][k]
          /\ \A p \in DOMAIN index \ UpdatedPaths :
                p \in DOMAIN index' /\ index'[p] = index[p]]_vars

\* C17: an update that targets a path absent from the index does not fail:
\* it returns, and every such path is in the index afterwards with the
\* record the supplied indexers give for it.
C17_AbsentPathInserted ==
    [][(Updates /\ UpdatedPaths \ DOMAIN index # {}) =>
          /\ exc' = None
          /\ \A f \in UpdatedPaths \ DOMAIN index :
                f \in DOMAIN index' /\ index'[f] = Computed(f)]_vars

(***************************************************************************)
(* More claims on compare_dir_snapshot (SpecShape, SpecDiff)               *)
(***************************************************************************)
\* one of the two snapshots lacks one of the top-level keys in keys
Lacking(keys) ==
    \E k \in keys : k \notin DOMAIN dir_snapshot_new \/ k \notin DOMAIN dir_snapshot_old

\* C18: compare_dir_snapshot raises and returns no diff whenever either
\* snapshot lacks one of the top-level keys files, subdirs or root.
C18_MissingKeyFails ==
    (pc # "call" /\ Lacking(TopKeys)) => pc = KeyError

\* C18 as amended: compare_dir_snapshot raises KeyError and returns no diff
\* exactly when either snapshot lacks the top-level key files or subdirs;
\* root is never read, and a snapshot that lacks only root is diffed.
C18_MissingMapFails ==
    pc # "call" =>
        /\ Lacking({"files", "subdirs"}) => pc = KeyError
        /\ ~Lacking({"files", "subdirs"}) => pc = "return"

\* a diff was returned for a new snapshot without root
C18_Witness ==
    /\ pc = "return"
    /\ "root" \notin DOMAIN dir_snapshot_new
    /\ "a.txt" \in DOMAIN dir_snapshot_new["files"]

\* C19: without a cmp_key, when no file of both snapshots has a key common
\* to its two records, modified is empty and modified_unknown holds exactly
\* the file paths of both snapshots.
C19_NoCommonKeyIsUnknown ==
    (Returned /\ cmp_key = None
       /\ \A f \in CommonFiles :
             DOMAIN dir_snapshot_new["files"][f] \cap DOMAIN dir_snapshot_old["files"][f] = {})
    => /\ data.modified = << >>
       /\ Range(data.modified_unknown) = CommonFiles
       /\ NoDup(data.modified_unknown)

\* two common files, indexed by mtime in the new snapshot and by content
\* hash in the old one
C19_Witness ==
    /\ Returned
    /\ cmp_key = None
    /\ CommonFiles = {"a.txt", "b.txt"}
    /\ \A f \in CommonFiles :
          /\ DOMAIN dir_snapshot_new["files"][f] = {GETMTIME}
          /\ DOMAIN dir_snapshot_old["files"][f] = {XXHASH}
    /\ Len(data.modified_unknown) = 2

(***************************************************************************)
(* Claims on iterfiles and itersubdirs (SpecPaths)                         *)
(***************************************************************************)
\* the cache the last call iterated
IteratedCache == IF op.name = "iterfiles" THEN files_cache ELSE sub_dirs_cache

\* C20: iterfiles and itersubdirs yield, for every cached relative path p,
\* the absolute path made of the handle's absolute root path and p when
\* abspath is true, and p itself when abspath is false.
C20_AbsoluteFromRoot ==
    (op.name \in {"iterfiles", "itersubdirs"} /\ exc = None) =>
        /\ Len(listing) = Len(IteratedCache)
        /\ \A i \in DOMAIN listing :
              IF op.abspath
              THEN listing[i] = AbsJoin(RootPath, IteratedCache[i])
              ELSE listing[i] = IteratedCache[i]

\* the snapshot was diffed against itself
SelfDiff == Returned /\ dir_snapshot_new = dir_snapshot_old

\* C25: the diff of a snapshot against itself has empty created, deleted,
\* modified, modified_unknown and deleted_dirs lists, for every cmp_key.
C25_SelfDiffEmpty ==
    SelfDiff => data = EmptyDiff

\* C25 as amended: the diff of a snapshot against itself has empty created,
\* deleted, modified and deleted_dirs lists; modified_unknown holds, each
\* once, the files whose record has the cmp_key when one is given, and the
\* files whose record has no key at all when none is given.
C25_SelfDiffOnlyUnknown ==
    SelfDiff =>
        /\ data.created = << >>
        /\ data.deleted = << >>
        /\ data.modified = << >>
        /\ data.deleted_dirs = << >>
        /\ NoDup(data.modified_unknown)
        /\ Range(data.modified_unknown) =
              {f \in NewFiles :
                  IF cmp_key # None
                  THEN cmp_key \in DOMAIN dir_snapshot_new["files"][f]
                  ELSE DOMAIN dir_snapshot_new["files"][f] = {}}

\* a snapshot of two hashed files and a directory was diffed against itself
\* on the hash
C25_Witness ==
    /\ SelfDiff
    /\ cmp_key = XXHASH
    /\ NewFiles = {"a.txt", "b.txt"}
    /\ \A f \in NewFiles : DOMAIN dir_snapshot_new["files"][f] = {XXHASH}
    /\ DOMAIN dir_snapshot_new["subdirs"] = {"sub"}

(***************************************************************************)
(* More claims on update_file_index and update_subdir_index (SpecUpdate)   *)
(***************************************************************************)
\* C22: an update called with a list of paths, the empty list included,
\* does not walk the directory and changes or inserts records of paths of
\* that list only; an update called without a list walks the directory.
C22_GivenListNotRewalked ==
    [][Updates =>
          IF op'.to_update.given
          THEN /\ walked' = {}
               /\ \A p \in DOMAIN index \ Range(op'.to_update.paths) :
                     p \in DOMAIN index' /\ index'[p] = index[p]
               /\ DOMAIN index' \ DOMAIN index \subseteq Range(op'.to_update.paths)
          ELSE Dot \in walked']_vars

(***************************************************************************)
(* Claims on the steps of snapshot_dir (SpecSteps)                         *)
(***************************************************************************)
\* C21: snapshot_dir computes the root record and the file and
\* subdirectory records after its forced populate and before its
\* depopulate: each of these lines runs on a populated handle and leaves
\* the handle as it is; when snapshot_dir returns, the handle is not
\* populated and both of its caches are empty.
C21_RecordsWhilePopulated ==
    [][/\ line \in {486, 487, 488} => (is_populated /\ UNCHANGED dirvars)
       /\ (line = 490 /\ line' = 0) =>
             (~is_populated' /\ files_cache' = << >> /\ sub_dirs_cache' = << >>)]_vars

\* snapshot_dir returned a snapshot with file and subdirectory records
C21_Witness ==
    /\ line = 0
    /\ op.name = "snapshot_dir returned"
    /\ exc = None
    /\ state.files # EmptyDict
    /\ state.subdirs # EmptyDict
    /\ ~is_populated

(***************************************************************************)
(* Claims on the construction of Dir objects (SpecDirs)                    *)
(***************************************************************************)
\* C23: a Dir built with default arguments has exactly the default
\* patterns .git/, .hg/, .svn/, whatever was constructed before; the
\* construction of a Dir changes neither the pattern list of a Dir
\* constructed before nor the defaults later constructions use.
C23_PatternsIsolated ==
    [][Len(handles') > Len(handles) =>
          /\ \A self \in {handles'[Len(handles')]} :
                (self.patterns # CallerExcludes /\ ~self.exclude_file) =>
                    /\ lists'[self.patterns] = DefaultExcludes
                    /\ self.globster = DefaultExcludes
          /\ \A i \in 1..Len(handles) :
                lists'[handles[i].patterns] = lists[handles[i].patterns]
          /\ lists'[DirExcludes] = lists[DirExcludes]
          /\ lists'[SnapshotDirExcludes] = lists[SnapshotDirExcludes]]_vars

(***************************************************************************)
(* Claims on the generators of iterfiles and itersubdirs (SpecIter)        *)
(***************************************************************************)
\* C24: a step of a generator of iterfiles / itersubdirs made with
\* force_refresh false on a populated handle leaves the caches and the
\* flag as they are, and a generator that ends has yielded exactly the
\* paths the cache held when its call of populate returned, each once,
\* whatever populate and depopulate calls ran between its steps.
C24_GeneratorIsStableView ==
    [][(gen.at \in {"created", "loop"} /\ gen' # gen) =>
          /\ (~gen.force_refresh /\ is_populated) => UNCHANGED dirvars
          /\ gen'.at = "done" => gen'.yielded = gen'.held]_vars

====
